---- MODULE Spec2Model ----
(***************************************************************************)
(* tigmint-molecule: group linked reads into molecules.                    *)
(* A model of MolecIdentifier.run (bin/tigmint_molecule.py): the pass over *)
(* the alignment stream, the record filter, the run buffer, the per-run    *)
(* segmentation loop and the two sinks.                                    *)
(***************************************************************************)
EXTENDS Integers, Sequences, FiniteSets, TLC

(***************************************************************************)
(* Bounds of the model.                                                    *)
(***************************************************************************)
\* Number of alignment records in the stream.
MaxReads == 3
\* Largest alignment start position (positions are 0-based, as in pysam).
MaxPos == 3
\* Number of reference bases an alignment covers.
ReadLen == 2

Positions == 0..MaxPos
Barcodes == {"B1", "B2"}
\* Reference ids and their names, as the header of the alignment file gives them.
RefNames == <<"chr1", "chr2">>
RefIds == {0, 1}

\* Python's None, and a value that is not None.
None == <<>>
Some(x) == <<x>>

(***************************************************************************)
(* Alignment records (pysam.AlignedSegment). An optional tag is a sequence *)
(* of length 0 (absent) or 1 (present).                                    *)
(***************************************************************************)
has_tag(read, tag) == read[tag] # <<>>
get_tag(read, tag) == read[tag][1]
reference_name(read) == RefNames[read.reference_id + 1]
reference_end(read) == read.pos + read.reference_length

(***************************************************************************)
(* statistics.median: the middle value, or the mean of the two middle      *)
(* values, kept as a fraction num/den.                                     *)
(***************************************************************************)
RECURSIVE Insert(_, _)
Insert(x, s) ==
    IF s = <<>> THEN <<x>>
    ELSE IF x <= Head(s) THEN <<x>> \o s
    ELSE <<Head(s)>> \o Insert(x, Tail(s))

RECURSIVE Sorted(_)
Sorted(s) == IF s = <<>> THEN <<>> ELSE Insert(Head(s), Sorted(Tail(s)))

median(data) ==
    LET s == Sorted(data)
        n == Len(s)
    IN  IF n % 2 = 1
        THEN [na |-> FALSE, num |-> s[(n + 1) \div 2], den |-> 1]
        ELSE [na |-> FALSE, num |-> s[n \div 2] + s[n \div 2 + 1], den |-> 2]

NA == [na |-> TRUE, num |-> 0, den |-> 1]

\* Mutant: an empty collection gives 0.
median_or_NA_Zero(data) ==
    IF data # <<>> THEN median(data)
    ELSE [na |-> FALSE, num |-> 0, den |-> 1]

median_or_NA(data) == IF data # <<>> THEN median(data) ELSE NA

(***************************************************************************)
(* class Molecule                                                          *)
(***************************************************************************)
Molecule(rname, start, end, new_molec_id, barcode, count, mapq_median, as_median, nm_median) ==
    [rname |-> rname, start |-> start, end |-> end, barcode |-> barcode,
     new_molec_id |-> new_molec_id, count |-> count,
     mapq_median |-> mapq_median, as_median |-> as_median,
     nm_median |-> nm_median]

VARIABLES
    opt,                \* the parsed command line (self.opt)
    pc,                 \* "args": before parse_arguments; "loop": reading
                        \* samfile; "done": files closed; "exit": after
                        \* sys.exit(1); "raised": an exception ended run()
    nread,              \* number of records read from samfile so far
    read,               \* the record the for loop holds (None before the first)
    prev_barcode,       \* barcode of the open run, or None
    prev_chr,           \* reference id of the open run, or None
    cur_reads,          \* buffer of the open run
    new_molec_id,       \* molecule id counter
    out_molecules_file, \* molecules printed, in order
    out_bam_file,       \* records written to the output BAM, in order
    stderr              \* lines printed to sys.stderr, in order

vars == <<opt, pc, nread, read, prev_barcode, prev_chr, cur_reads,
          new_molec_id, out_molecules_file, out_bam_file, stderr>>

(***************************************************************************)
(* The record filter, lines 95-102.                                        *)
(***************************************************************************)
\* Mutant: a mismatch count equal to max_nm passes.
Filtered_NmStrict(r) ==
    \/ r.is_unmapped
    \/ r.is_supplementary
    \/ r.mapping_quality < opt.min_mapq
    \/ (has_tag(r, "NM") /\ get_tag(r, "NM") > opt.max_nm)
    \/ (has_tag(r, "AS")
        /\ get_tag(r, "AS") * opt.min_as_ratio.den
             < opt.min_as_ratio.num * r.query_length)

Filtered(r) ==
    \/ r.is_unmapped
    \/ r.is_supplementary
    \/ r.mapping_quality < opt.min_mapq
    \/ (has_tag(r, "NM") /\ get_tag(r, "NM") >= opt.max_nm)
    \/ (has_tag(r, "AS")
        /\ get_tag(r, "AS") * opt.min_as_ratio.den
             < opt.min_as_ratio.num * r.query_length)

(***************************************************************************)
(* The segmentation loop over a closed run, lines 114-207.                 *)
(***************************************************************************)
\* Line 135: should the molecule be terminated at this read?
Terminated(abs_dist, prev_val) == abs_dist > opt.max_dist /\ prev_val > 0

\* Mutant: the number of reads is not tested.
Printed_IgnoresCount(count, molec) ==
    molec.end - molec.start >= opt.min_size

\* Lines 152 and 205: is the molecule printed?
Printed(count, molec) ==
    count >= opt.min_reads /\ molec.end - molec.start >= opt.min_size

\* Mutant: the tagged read is not written.
WriteTagged_Skips(bam, cur_read, id) == bam

\* Lines 155-157 and 170-172: cur_read.set_tag("MI", id); out_bam_file.write
WriteTagged(bam, cur_read, id) ==
    IF opt.out_bam_filename
    THEN Append(bam, [cur_read EXCEPT !.MI = <<id>>])
    ELSE bam

\* Mutant: count is not reset, it goes on from the molecules printed so far.
LoopInit_KeepsCount(reads, barcode, id, mols, bam) ==
    [prev_val |-> 0, prev_read |-> reads[1], prev_val1 |-> 0, prev_val2 |-> 0,
     start |-> reads[1].pos, rname |-> reference_name(reads[1]),
     mapqs |-> <<>>, scores |-> <<>>, nms |-> <<>>, count |-> Len(mols),
     prev_barcode |-> barcode, new_molec_id |-> id, mols |-> mols, bam |-> bam]

\* Lines 114-123: the locals before the loop over cur_reads.
LoopInit(reads, barcode, id, mols, bam) ==
    [prev_val |-> 0, prev_read |-> reads[1], prev_val1 |-> 0, prev_val2 |-> 0,
     start |-> reads[1].pos, rname |-> reference_name(reads[1]),
     mapqs |-> <<>>, scores |-> <<>>, nms |-> <<>>, count |-> 0,
     prev_barcode |-> barcode, new_molec_id |-> id, mols |-> mols, bam |-> bam]

\* Lines 136-143 and 198-203: the molecule of the segment being closed.
CloseSegment(st, mapqs, scores, nms) ==
    Molecule(st.rname, st.start, reference_end(st.prev_read),
             st.new_molec_id, st.prev_barcode, st.count,
             median(mapqs), median_or_NA(scores), median_or_NA(nms))

\* Mutant: the read that ends a molecule is written with the id of that
\* molecule, not with the id of the molecule it starts.
BoundaryBranch_TagsOld(st, cur_read, mapqs, scores, nms) ==
    LET value == cur_read.pos
        molec == CloseSegment(st, mapqs, scores, nms)
        printed == Printed(st.count, molec)
        id == IF printed THEN st.new_molec_id + 1 ELSE st.new_molec_id
    IN  [st EXCEPT
            !.prev_val1 = IF st.prev_read.is_reverse THEN 0 ELSE value,
            !.prev_val2 = IF st.prev_read.is_reverse THEN value ELSE 0,
            !.start = value,
            !.mols = IF printed THEN Append(@, molec) ELSE @,
            !.new_molec_id = id,
            !.bam = WriteTagged(@, cur_read, st.new_molec_id),
            !.mapqs = <<cur_read.mapping_quality>>,
            !.scores = IF has_tag(cur_read, "AS")
                       THEN <<get_tag(cur_read, "AS")>> ELSE <<>>,
            !.nms = IF has_tag(cur_read, "NM")
                    THEN <<get_tag(cur_read, "NM")>> ELSE <<>>,
            !.prev_val = value,
            !.count = 0]

\* Lines 135-168: the branch that terminates a molecule at cur_read.
BoundaryBranch(st, cur_read, mapqs, scores, nms) ==
    LET value == cur_read.pos
        molec == CloseSegment(st, mapqs, scores, nms)
        printed == Printed(st.count, molec)
        id == IF printed THEN st.new_molec_id + 1 ELSE st.new_molec_id
    IN  [st EXCEPT
            !.prev_val1 = IF st.prev_read.is_reverse THEN 0 ELSE value,
            !.prev_val2 = IF st.prev_read.is_reverse THEN value ELSE 0,
            !.start = value,
            !.mols = IF printed THEN Append(@, molec) ELSE @,
            !.new_molec_id = id,
            !.bam = WriteTagged(@, cur_read, id),
            !.mapqs = <<cur_read.mapping_quality>>,
            !.scores = IF has_tag(cur_read, "AS")
                       THEN <<get_tag(cur_read, "AS")>> ELSE <<>>,
            !.nms = IF has_tag(cur_read, "NM")
                    THEN <<get_tag(cur_read, "NM")>> ELSE <<>>,
            !.prev_val = value,
            !.count = 0]

\* Lines 174-197: inter-arrival counting of a read that ends no molecule.
CountBranch(st, cur_read) ==
    LET value == cur_read.pos
    IN  IF cur_read.is_reverse
        THEN IF st.prev_val2 = 0
             THEN [st EXCEPT !.prev_val2 = value, !.prev_val = value,
                             !.count = @ + 1]
             ELSE [st EXCEPT !.prev_val2 = value,
                             !.count = IF value - st.prev_val2 > 0
                                       THEN @ + 1 ELSE @,
                             !.prev_val = value, !.prev_read = cur_read]
        ELSE IF st.prev_val1 = 0
             THEN [st EXCEPT !.prev_val1 = value, !.prev_val = value,
                             !.count = @ + 1]
             ELSE [st EXCEPT !.prev_val1 = value,
                             !.count = IF value - st.prev_val1 > 0
                                       THEN @ + 1 ELSE @,
                             !.prev_val = value, !.prev_read = cur_read]

\* Lines 126-197: one iteration of "for cur_read in cur_reads".
LoopBody(st, cur_read) ==
    LET value == cur_read.pos
        abs_dist == value - st.prev_val
        mapqs == Append(st.mapqs, cur_read.mapping_quality)
        scores == IF has_tag(cur_read, "AS")
                  THEN Append(st.scores, get_tag(cur_read, "AS"))
                  ELSE st.scores
        nms == IF has_tag(cur_read, "NM")
               THEN Append(st.nms, get_tag(cur_read, "NM"))
               ELSE st.nms
    IN  IF Terminated(abs_dist, st.prev_val)
        THEN BoundaryBranch(st, cur_read, mapqs, scores, nms)
        ELSE CountBranch(
                 [st EXCEPT !.mapqs = mapqs, !.scores = scores, !.nms = nms,
                            !.bam = WriteTagged(@, cur_read, st.new_molec_id)],
                 cur_read)

\* The locals after the first n iterations of the loop.
RECURSIVE LoopState(_, _, _)
LoopState(st0, reads, n) ==
    IF n = 0 THEN st0 ELSE LoopBody(LoopState(st0, reads, n - 1), reads[n])

\* Mutant: the run-close flush prints the molecule and keeps the counter.
FinalFlush_KeepsId(st) ==
    LET molec == CloseSegment(st, st.mapqs, st.scores, st.nms)
    IN  [st EXCEPT
            !.mols = IF Printed(st.count, molec) THEN Append(@, molec) ELSE @]

\* Lines 198-207: the molecule of the last segment of the run.
FinalFlush(st) ==
    LET molec == CloseSegment(st, st.mapqs, st.scores, st.nms)
        printed == Printed(st.count, molec)
    IN  [st EXCEPT
            !.mols = IF printed THEN Append(@, molec) ELSE @,
            !.new_molec_id = IF printed THEN @ + 1 ELSE @]

\* Lines 114-207: segment a closed run.
SegmentRun(reads, barcode, id, mols, bam) ==
    FinalFlush(LoopState(LoopInit(reads, barcode, id, mols, bam),
                         reads, Len(reads)))

(***************************************************************************)
(* The body of "for read in samfile", lines 93-211, one action per branch. *)
(***************************************************************************)
Take(r) ==
    /\ r.query_name = nread + 1
    /\ nread' = nread + 1
    /\ read' = Some(r)
    /\ UNCHANGED <<opt, pc, stderr>>

\* Lines 95-102: continue.
DropFiltered(r) ==
    /\ Take(r)
    /\ Filtered(r)
    /\ UNCHANGED <<prev_barcode, prev_chr, cur_reads, new_molec_id,
                   out_molecules_file, out_bam_file>>

\* Mutant: the record is written with the current molecule id as its tag.
WriteUntagged_Tags(bam, r) ==
    IF opt.out_bam_filename
    THEN Append(bam, [r EXCEPT !.MI = <<new_molec_id>>])
    ELSE bam

\* Lines 105-106: out_bam_file.write(read), if there is an output BAM.
WriteUntagged(bam, r) ==
    IF opt.out_bam_filename THEN Append(bam, r) ELSE bam

\* Lines 104-107: a record without BX is written as it is, and skipped.
ForwardNoBarcode(r) ==
    /\ Take(r)
    /\ ~Filtered(r)
    /\ ~has_tag(r, "BX")
    /\ out_bam_file' = WriteUntagged(out_bam_file, r)
    /\ UNCHANGED <<prev_barcode, prev_chr, cur_reads, new_molec_id,
                   out_molecules_file>>

\* Lines 110-112: the run key the test of line 113 sees.
KeyBarcode(barcode) ==
    IF prev_chr = None \/ prev_barcode = None THEN Some(barcode)
    ELSE prev_barcode
KeyChr(r) ==
    IF prev_chr = None \/ prev_barcode = None THEN Some(r.reference_id)
    ELSE prev_chr

\* Mutant: only the barcode is compared.
RunChanges_BarcodeOnly(r) ==
    KeyBarcode(get_tag(r, "BX")) # Some(get_tag(r, "BX"))

\* Line 113
RunChanges(r) ==
    \/ KeyBarcode(get_tag(r, "BX")) # Some(get_tag(r, "BX"))
    \/ Some(r.reference_id) # KeyChr(r)

\* Mutant: the key is updated and the read is not appended to the buffer.
AppendToRun_KeyOnly(r) ==
    /\ Take(r)
    /\ ~Filtered(r)
    /\ has_tag(r, "BX")
    /\ ~RunChanges(r)
    /\ prev_barcode' = Some(get_tag(r, "BX"))
    /\ prev_chr' = Some(r.reference_id)
    /\ UNCHANGED <<cur_reads, new_molec_id, out_molecules_file, out_bam_file>>

\* Lines 109-113 (test false) and 209-211.
AppendToRun(r) ==
    /\ Take(r)
    /\ ~Filtered(r)
    /\ has_tag(r, "BX")
    /\ ~RunChanges(r)
    /\ cur_reads' = Append(cur_reads, r)
    /\ prev_barcode' = Some(get_tag(r, "BX"))
    /\ prev_chr' = Some(r.reference_id)
    /\ UNCHANGED <<new_molec_id, out_molecules_file, out_bam_file>>

\* Lines 109-211 with the test of line 113 true.
CloseRun(r) ==
    /\ Take(r)
    /\ ~Filtered(r)
    /\ has_tag(r, "BX")
    /\ RunChanges(r)
    /\ LET st == SegmentRun(cur_reads, KeyBarcode(get_tag(r, "BX"))[1],
                            new_molec_id, out_molecules_file, out_bam_file)
       IN  /\ new_molec_id' = st.new_molec_id
           /\ out_molecules_file' = st.mols
           /\ out_bam_file' = st.bam
    /\ cur_reads' = <<r>>
    /\ prev_barcode' = Some(get_tag(r, "BX"))
    /\ prev_chr' = Some(r.reference_id)

\* Lines 213-218: samfile is exhausted, the files are closed.
EndOfStream ==
    /\ pc = "loop"
    /\ nread = MaxReads
    /\ pc' = "done"
    /\ UNCHANGED <<opt, nread, read, prev_barcode, prev_chr, cur_reads,
                   new_molec_id, out_molecules_file, out_bam_file, stderr>>

(***************************************************************************)
(* The alignment stream: sorted by BX tag, then by position.               *)
(***************************************************************************)
BarcodeRank(b) == IF b = "B1" THEN 1 ELSE 2

\* r may follow q in a file sorted by barcode, reference and position.
InOrder(q, r) ==
    LET bq == BarcodeRank(get_tag(q, "BX"))
        br == BarcodeRank(get_tag(r, "BX"))
    IN  \/ bq < br
        \/ bq = br /\ q.reference_id < r.reference_id
        \/ bq = br /\ q.reference_id = r.reference_id /\ q.pos <= r.pos

\* A barcoded record keeps the order with respect to the last buffered one.
KeepsOrder(r) ==
    has_tag(r, "BX") /\ cur_reads # <<>>
        => InOrder(cur_reads[Len(cur_reads)], r)

Tags(S) == {<<>>} \cup {<<x>> : x \in S}

\* Records of the segmentation specification. Barcoded records pass the
\* filter and take every place and strand; a record without barcode passes
\* the filter or has a low mapping quality.
SegReads ==
    [query_name : {nread + 1},
     is_unmapped : {FALSE}, is_supplementary : {FALSE},
     mapping_quality : {1}, NM : {<<>>}, AS : {<<>>}, query_length : {2},
     BX : Tags(Barcodes) \ {<<>>}, reference_id : RefIds, pos : Positions,
     reference_length : {ReadLen}, is_reverse : BOOLEAN, MI : {<<>>}]
    \cup
    [query_name : {nread + 1},
     is_unmapped : {FALSE}, is_supplementary : {FALSE},
     mapping_quality : {0, 1}, NM : {<<>>}, AS : {<<>>}, query_length : {2},
     BX : {<<>>}, reference_id : {0}, pos : {0},
     reference_length : {ReadLen}, is_reverse : {FALSE}, MI : {<<>>}]

SegOpts ==
    [max_dist : {1}, min_reads : {0, 1, 2}, min_size : {0},
     min_mapq : {1}, max_nm : {1}, min_as_ratio : {[num |-> 1, den |-> 2]},
     out_bam_filename : BOOLEAN]

\* The state when the loop over samfile starts, lines 88-92.
Start(options) ==
    /\ opt \in options
    /\ pc = "loop"
    /\ nread = 0
    /\ read = None
    /\ prev_barcode = None
    /\ prev_chr = None
    /\ cur_reads = <<>>
    /\ new_molec_id = 0
    /\ out_molecules_file = <<>>
    /\ out_bam_file = <<>>
    /\ stderr = <<>>

Init == Start(SegOpts)

\* The records the stream may hold next.
SegInput == {r \in SegReads : KeepsOrder(r)}

\* samfile has a next record.
More == pc = "loop" /\ nread < MaxReads

Next ==
    \/ More /\ \E r \in SegInput : DropFiltered(r)
    \/ More /\ \E r \in SegInput : ForwardNoBarcode(r)
    \/ More /\ \E r \in SegInput : AppendToRun(r)
    \/ More /\ \E r \in SegInput : CloseRun(r)
    \/ EndOfStream

Spec == Init /\ [][Next]_vars

(***************************************************************************)
(* The filter specification: one place, every combination of the flags and *)
(* statistics the filter reads, thresholds that some records meet exactly. *)
(***************************************************************************)
FilterReads ==
    [query_name : {nread + 1},
     is_unmapped : {FALSE}, is_supplementary : {FALSE},
     mapping_quality : {0, 1}, NM : Tags({1, 2}), AS : Tags({0, 1}),
     query_length : {2},
     BX : Tags(Barcodes), reference_id : {0}, pos : {1},
     reference_length : {ReadLen}, is_reverse : {FALSE}, MI : {<<>>}]
    \cup
    {r \in [query_name : {nread + 1},
            is_unmapped : BOOLEAN, is_supplementary : BOOLEAN,
            mapping_quality : {1}, NM : {<<>>}, AS : {<<>>},
            query_length : {2},
            BX : Tags(Barcodes), reference_id : {0}, pos : {1},
            reference_length : {ReadLen}, is_reverse : {FALSE},
            MI : {<<>>}] : r.is_unmapped \/ r.is_supplementary}

FilterOpts ==
    [max_dist : {1}, min_reads : {1}, min_size : {0},
     min_mapq : {0, 1}, max_nm : {2},
     min_as_ratio : {[num |-> 1, den |-> 2]},
     out_bam_filename : {TRUE}]

InitFilter == Start(FilterOpts)

FilterInput == {r \in FilterReads : KeepsOrder(r)}

NextFilter ==
    \/ More /\ \E r \in FilterInput : DropFiltered(r)
    \/ More /\ \E r \in FilterInput : ForwardNoBarcode(r)
    \/ More /\ \E r \in FilterInput : AppendToRun(r)
    \/ More /\ \E r \in FilterInput : CloseRun(r)
    \/ EndOfStream

SpecFilter == InitFilter /\ [][NextFilter]_vars

(***************************************************************************)
(* The statistics specification: two places more than max_dist apart, one  *)
(* strand, every combination of mapping quality, AS tag and NM tag that    *)
(* passes the filter.                                                      *)
(***************************************************************************)
StatsReads ==
    [query_name : {nread + 1},
     is_unmapped : {FALSE}, is_supplementary : {FALSE},
     mapping_quality : {1, 2}, NM : Tags({0}), AS : Tags({2}),
     query_length : {2},
     BX : Tags(Barcodes) \ {<<>>}, reference_id : {0}, pos : {1, MaxPos},
     reference_length : {ReadLen}, is_reverse : {FALSE}, MI : {<<>>}]
    \cup
    [query_name : {nread + 1},
     is_unmapped : {FALSE}, is_supplementary : {FALSE},
     mapping_quality : {0, 1}, NM : {<<>>}, AS : {<<>>}, query_length : {2},
     BX : {<<>>}, reference_id : {0}, pos : {0},
     reference_length : {ReadLen}, is_reverse : {FALSE}, MI : {<<>>}]

StatsOpts ==
    [max_dist : {1}, min_reads : {0, 1}, min_size : {0},
     min_mapq : {1}, max_nm : {1}, min_as_ratio : {[num |-> 1, den |-> 2]},
     out_bam_filename : {FALSE}]

InitStats == Start(StatsOpts)

StatsInput == {r \in StatsReads : KeepsOrder(r)}

NextStats ==
    \/ More /\ \E r \in StatsInput : DropFiltered(r)
    \/ More /\ \E r \in StatsInput : ForwardNoBarcode(r)
    \/ More /\ \E r \in StatsInput : AppendToRun(r)
    \/ More /\ \E r \in StatsInput : CloseRun(r)
    \/ EndOfStream

SpecStats == InitStats /\ [][NextStats]_vars

(***************************************************************************)
(* Vocabulary of the properties.                                           *)
(***************************************************************************)
Range(s) == {s[i] : i \in DOMAIN s}

\* This step closes the open run: the buffer is segmented and restarted.
ClosesRun ==
    /\ cur_reads # <<>>
    /\ Len(cur_reads') = 1
    /\ cur_reads' # cur_reads

\* The molecules this step prints.
PrintedNow ==
    SubSeq(out_molecules_file', Len(out_molecules_file) + 1,
           Len(out_molecules_file'))

\* The locals of the segmentation loop after n iterations over the open run.
RunLocals(n) ==
    LoopState(LoopInit(cur_reads, prev_barcode[1], new_molec_id,
                       out_molecules_file, out_bam_file), cur_reads, n)

\* The loop over the open run takes the boundary branch at its i-th read.
BoundaryAt(i) ==
    Terminated(cur_reads[i].pos - RunLocals(i - 1).prev_val,
               RunLocals(i - 1).prev_val)

\* Filter rules 1-4, as the specification words them.
RejectedByRules(r) ==
    \/ r.is_unmapped
    \/ r.is_supplementary
    \/ r.mapping_quality < opt.min_mapq
    \/ (r.NM # <<>> /\ r.NM[1] >= opt.max_nm)
    \/ (r.AS # <<>>
        /\ r.AS[1] * opt.min_as_ratio.den
             < opt.min_as_ratio.num * r.query_length)

\* This step reads a record from the stream.
ReadsRecord == nread' = nread + 1

(***************************************************************************)
(* C1. When the stream is exhausted the last open run has been flushed:    *)
(* every molecule its segmentation prints is in the molecule sink and,     *)
(* with annotation enabled, every buffered read is in the annotated sink.  *)
(***************************************************************************)
C1_FinalRunFlushed ==
    pc = "done" /\ cur_reads # <<>> =>
        /\ \A m \in Range(SegmentRun(cur_reads, prev_barcode[1], new_molec_id,
                                      <<>>, <<>>).mols) :
               m \in Range(out_molecules_file)
        /\ opt.out_bam_filename =>
               \A r \in Range(cur_reads) :
                   \E w \in Range(out_bam_file) : w.query_name = r.query_name

(***************************************************************************)
(* C2. Every molecule in the molecule sink has end > start,                *)
(* count >= min_reads and end - start >= min_size.                         *)
(***************************************************************************)
C2_EmittedMoleculesValid ==
    \A m \in Range(out_molecules_file) :
        /\ m.end > m.start
        /\ m.count >= opt.min_reads
        /\ m.end - m.start >= opt.min_size

(***************************************************************************)
(* C3. The ids of the molecules in the molecule sink are strictly          *)
(* increasing in emission order, so no id is used twice.                   *)
(***************************************************************************)
C3_IdsStrictlyIncreasing ==
    \A i, j \in DOMAIN out_molecules_file :
        i < j => out_molecules_file[i].new_molec_id
                   < out_molecules_file[j].new_molec_id

\* Two molecules of one run are in the sink: the first was printed at a
\* boundary inside the run, the second after it.
C3_Witness ==
    \E i, j \in DOMAIN out_molecules_file :
        /\ i < j
        /\ out_molecules_file[i].barcode = out_molecules_file[j].barcode
        /\ out_molecules_file[i].rname = out_molecules_file[j].rname

(***************************************************************************)
(* C4. In a run that is segmented, for consecutive reads at p then q:      *)
(* q - p = max_dist triggers no boundary at the second read, and           *)
(* q - p = max_dist + 1 triggers one, whatever p is.                       *)
(***************************************************************************)
C4_GapDecidesBoundary ==
    [][ClosesRun =>
         \A i \in 1..(Len(cur_reads) - 1) :
             LET gap == cur_reads[i + 1].pos - cur_reads[i].pos
             IN  /\ gap = opt.max_dist => ~BoundaryAt(i + 1)
                 /\ gap = opt.max_dist + 1 => BoundaryAt(i + 1)]_vars

(***************************************************************************)
(* C5. With min_reads = 1 and min_size = 0 a run whose reads fall into k   *)
(* groups separated by gaps greater than max_dist prints k molecules, the  *)
(* j-th starting at its group's first read and counting its group's reads. *)
(* Stated for runs of distinct, positive positions.                        *)
(***************************************************************************)
\* The indices in the open run at which a group of reads starts.
GroupStarts ==
    {i \in DOMAIN cur_reads :
        i = 1 \/ cur_reads[i].pos - cur_reads[i - 1].pos > opt.max_dist}

\* The indices of the group that starts at s.
GroupOf(s) ==
    {i \in DOMAIN cur_reads :
        i >= s /\ \A t \in GroupStarts : t > s => i < t}

C5_OneMoleculePerGroup ==
    [][/\ ClosesRun
       /\ opt.min_reads = 1
       /\ opt.min_size = 0
       /\ cur_reads[1].pos > 0
       /\ \A i \in 1..(Len(cur_reads) - 1) :
              cur_reads[i].pos < cur_reads[i + 1].pos
       => /\ Len(PrintedNow) = Cardinality(GroupStarts)
          /\ \A s \in GroupStarts :
                 LET j == Cardinality({t \in GroupStarts : t <= s})
                 IN  /\ PrintedNow[j].start = cur_reads[s].pos
                     /\ PrintedNow[j].count = Cardinality(GroupOf(s))]_vars

(***************************************************************************)
(* C6. The records in the annotated sink are in the order in which they    *)
(* arrived from the source (query_name is the arrival number).             *)
(***************************************************************************)
C6_AnnotatedInArrivalOrder ==
    \A i, j \in DOMAIN out_bam_file :
        i < j => out_bam_file[i].query_name < out_bam_file[j].query_name

(***************************************************************************)
(* C7. With annotation enabled, closing a run writes every read of its     *)
(* buffer to the annotated sink exactly once, in buffer order, each with a *)
(* molecule id tag and otherwise unchanged, and writes nothing else.       *)
(***************************************************************************)
C7_EveryBufferedReadWrittenOnce ==
    [][ClosesRun /\ opt.out_bam_filename =>
         /\ Len(out_bam_file') = Len(out_bam_file) + Len(cur_reads)
         /\ SubSeq(out_bam_file', 1, Len(out_bam_file)) = out_bam_file
         /\ \A i \in DOMAIN cur_reads :
                LET w == out_bam_file'[Len(out_bam_file) + i]
                IN  /\ w.MI # <<>>
                    /\ [w EXCEPT !.MI = <<>>] = cur_reads[i]]_vars

\* A run with a boundary was closed and nothing of it was printed: its
\* boundary-triggering read and its other read are in the annotated sink.
C7_Witness ==
    /\ out_molecules_file = <<>>
    /\ \E i, j \in DOMAIN out_bam_file :
           /\ i < j
           /\ out_bam_file[i].MI # <<>>
           /\ out_bam_file[j].MI # <<>>
           /\ out_bam_file[i].pos > 0
           /\ out_bam_file[j].pos - out_bam_file[i].pos > opt.max_dist

C9_NoBarcodeForwardedOnly ==
    [][/\ ReadsRecord
       /\ ~RejectedByRules(read'[1])
       /\ read'[1].BX = <<>>
       => /\ UNCHANGED <<prev_barcode, prev_chr, cur_reads, new_molec_id,
                         out_molecules_file>>
          /\ out_bam_file' = IF opt.out_bam_filename
                             THEN Append(out_bam_file, read'[1])
                             ELSE out_bam_file]_vars

\* A record without barcode arrived while a run was open and is the last
\* record of the annotated sink, untagged.
C9_Witness ==
    /\ read # None
    /\ read[1].BX = <<>>
    /\ ~RejectedByRules(read[1])
    /\ cur_reads # <<>>
    /\ out_bam_file # <<>>
    /\ out_bam_file[Len(out_bam_file)] = read[1]

(***************************************************************************)
(* C10. The reads of the run buffer all carry the barcode and reference id *)
(* of the run key; an accepted read with another barcode or reference id   *)
(* closes the run whatever its position; the molecules a closing run       *)
(* prints carry the barcode and reference of every read of that run.       *)
(***************************************************************************)
C10_RunsShareKey ==
    [][/\ \A r \in Range(cur_reads') :
              /\ prev_barcode' = <<r.BX[1]>>
              /\ prev_chr' = <<r.reference_id>>
       /\ (/\ ReadsRecord
           /\ ~RejectedByRules(read'[1])
           /\ read'[1].BX # <<>>
           /\ cur_reads # <<>>
           /\ \/ read'[1].BX # cur_reads[1].BX
              \/ read'[1].reference_id # cur_reads[1].reference_id)
          => ClosesRun /\ cur_reads' = <<read'[1]>>
       /\ ClosesRun =>
              \A m \in Range(PrintedNow) :
                  \A r \in Range(cur_reads) :
                      /\ m.barcode = r.BX[1]
                      /\ m.rname = RefNames[r.reference_id + 1]]_vars

\* A molecule was printed by a run that a read with another barcode, on the
\* same reference and at the molecule's own start, closed.
C10_Witness ==
    /\ Len(cur_reads) = 1
    /\ \E m \in Range(out_molecules_file) :
           /\ m.barcode # cur_reads[1].BX[1]
           /\ m.rname = RefNames[cur_reads[1].reference_id + 1]
           /\ m.start = cur_reads[1].pos

(***************************************************************************)
(* C11. The read count of a segment never exceeds the number of reads of   *)
(* that segment, so a run of fewer than min_reads reads prints no          *)
(* molecule, whatever the positions and strands of its reads.              *)
(***************************************************************************)
\* The index at which the segment holding the n-th read of the open run
\* starts: the last boundary at or before n, or the first read.
SegmentStartIndex(n) ==
    LET B == {i \in 2..n : BoundaryAt(i)}
    IN  IF B = {} THEN 1 ELSE CHOOSE i \in B : \A k \in B : k <= i

C11_CountWithinReads ==
    [][ClosesRun =>
         /\ \A n \in DOMAIN cur_reads :
                RunLocals(n).count <= n - SegmentStartIndex(n) + 1
         /\ \A m \in Range(PrintedNow) : m.count <= Len(cur_reads)
         /\ Len(cur_reads) < opt.min_reads => PrintedNow = <<>>]_vars

\* With min_reads = 2 a run of one read was closed (its read is in the
\* annotated sink) and nothing was printed.
C11_Witness ==
    /\ opt.min_reads = 2
    /\ out_molecules_file = <<>>
    /\ Len(cur_reads) = 1
    /\ \E i \in DOMAIN out_bam_file :
           /\ out_bam_file[i].MI # <<>>
           /\ \A j \in DOMAIN out_bam_file :
                  out_bam_file[j].MI # <<>> => j = i

(***************************************************************************)
(* C12. Reads without AS or NM tag are no error: a closing run is          *)
(* segmented and the buffer restarted; a molecule printed by a run none of *)
(* whose reads carries AS has the AS median "NA", and a numeric AS median  *)
(* is printed only when a read of the run carries AS; likewise for NM.     *)
(***************************************************************************)
C12_MissingTagsGiveNA ==
    [][ClosesRun =>
         /\ cur_reads' = <<read'[1]>>
         /\ \A m \in Range(PrintedNow) :
                /\ (\A r \in Range(cur_reads) : r.AS = <<>>)
                       => m.as_median = NA
                /\ (\A r \in Range(cur_reads) : r.NM = <<>>)
                       => m.nm_median = NA
                /\ ~m.as_median.na
                       => \E r \in Range(cur_reads) : r.AS # <<>>
                /\ ~m.nm_median.na
                       => \E r \in Range(cur_reads) : r.NM # <<>>
                /\ ~m.mapq_median.na]_vars

\* A molecule was printed whose AS median is "NA" and whose NM median is a
\* number.
C12_Witness ==
    \E m \in Range(out_molecules_file) :
        m.as_median = NA /\ ~m.nm_median.na

(***************************************************************************)
(* The parameter file (-p): get_dist, called by parse_arguments before     *)
(* samfile is opened.  A line of text is a sequence of characters.         *)
(***************************************************************************)
\* Number of lines of the parameter file.
MaxLines == 2

Whitespace == {" ", "\t", "\n"}

\* str.strip() of line 226.
RECURSIVE lstrip(_)
lstrip(s) ==
    IF s # <<>> /\ Head(s) \in Whitespace THEN lstrip(Tail(s)) ELSE s
RECURSIVE rstrip(_)
rstrip(s) ==
    IF s # <<>> /\ s[Len(s)] \in Whitespace
    THEN rstrip(SubSeq(s, 1, Len(s) - 1))
    ELSE s
strip(s) == rstrip(lstrip(s))

\* str.split(sep) of line 226.
RECURSIVE split(_, _)
split(s, sep) ==
    IF \E i \in DOMAIN s : s[i] = sep
    THEN LET i == CHOOSE k \in DOMAIN s :
                      s[k] = sep /\ \A j \in 1..(k - 1) : s[j] # sep
         IN  <<SubSeq(s, 1, i - 1)>> \o split(SubSeq(s, i + 1, Len(s)), sep)
    ELSE <<s>>

\* str.startswith(prefix) of line 227.
startswith(s, prefix) ==
    Len(s) >= Len(prefix) /\ SubSeq(s, 1, Len(prefix)) = prefix

\* int(str) of line 228: a decimal numeral, or ValueError.
Digits == <<"0", "1", "2", "3", "4", "5", "6", "7", "8", "9">>
IsNumeral(s) ==
    s # <<>> /\ \A i \in DOMAIN s : \E d \in DOMAIN Digits : Digits[d] = s[i]
DigitValue(c) == (CHOOSE d \in DOMAIN Digits : Digits[d] = c) - 1
RECURSIVE int(_)
int(s) ==
    IF Len(s) = 1 THEN DigitValue(s[1])
    ELSE 10 * int(SubSeq(s, 1, Len(s) - 1)) + DigitValue(s[Len(s)])

\* The prefix "read_p" of line 227.
ReadP == <<"r", "e", "a", "d", "_", "p">>

\* Lines 232 and 235: the message of a file that does not exist or that
\* cannot be read.
CannotBeRead == "tigmint-molecule: parameter file cannot be read"
\* Line 229: the message the code builds with the format "'%'" and the
\* operator %, which raises ValueError (unsupported format character)
\* before print is called.
NotFound ==
    "tigmint-molecule: calculated max_dist parameter not found in parameter file"
FormatError == "ValueError: unsupported format character"
IndexError == "IndexError: list index out of range"
IntError == "ValueError: invalid literal for int() with base 10"

\* Lines 225-228: the first line whose first field starts with "read_p",
\* split into fields, or None.
RECURSIVE ScanLines(_)
ScanLines(lines) ==
    IF lines = <<>> THEN None
    ELSE LET line_content == split(strip(Head(lines)), "\t")
         IN  IF startswith(line_content[1], ReadP)
             THEN Some(line_content)
             ELSE ScanLines(Tail(lines))

\* Lines 220-236.  outcome "return": value is returned; "exit": sys.exit(1)
\* after a message; "raised": an exception leaves get_dist (nothing in
\* run() catches it: the interpreter prints it and ends with status 1).
get_dist(param_file) ==
    IF param_file.F_OK
    THEN IF param_file.R_OK
         THEN LET hit == ScanLines(param_file.lines)
              IN  IF hit # None
                  THEN IF Len(hit[1]) < 2
                       THEN [outcome |-> "raised", value |-> 0,
                             stderr |-> <<IndexError>>]
                       ELSE IF IsNumeral(hit[1][2])
                       THEN [outcome |-> "return", value |-> int(hit[1][2]),
                             stderr |-> <<>>]
                       ELSE [outcome |-> "raised", value |-> 0,
                             stderr |-> <<IntError>>]
                  ELSE [outcome |-> "raised", value |-> 0,
                        stderr |-> <<FormatError>>]
         ELSE [outcome |-> "exit", value |-> 0, stderr |-> <<CannotBeRead>>]
    ELSE [outcome |-> "exit", value |-> 0, stderr |-> <<CannotBeRead>>]

\* Line 70 and lines 294-296: max_dist is taken from the parameter file, if
\* one is given; then samfile is opened.
parse_arguments ==
    /\ pc = "args"
    /\ IF opt.param_file = None
       THEN pc' = "loop" /\ UNCHANGED <<opt, stderr>>
       ELSE LET d == get_dist(opt.param_file[1])
            IN  /\ pc' = IF d.outcome = "return" THEN "loop" ELSE d.outcome
                /\ opt' = IF d.outcome = "return"
                          THEN [opt EXCEPT !.max_dist = d.value]
                          ELSE opt
                /\ stderr' = stderr \o d.stderr
    /\ UNCHANGED <<nread, read, prev_barcode, prev_chr, cur_reads,
                   new_molec_id, out_molecules_file, out_bam_file>>

\* Lines of a parameter file: two with a read_p row, two without.
ParamLines ==
    { <<"r", "e", "a", "d", "_", "p", "9", "5", "\t", "1", "\n">>,
      <<"r", "e", "a", "d", "_", "p", "9", "9", "\t", "2", "\n">>,
      <<"r", "e", "a", "d", "_", "n", "\t", "2", "\n">>,
      <<"m", "e", "a", "n", "\t", "1", "\n">> }

RECURSIVE Texts(_)
Texts(n) ==
    IF n = 0 THEN {<<>>}
    ELSE LET T == Texts(n - 1)
         IN  T \cup {Append(t, l) : t \in {u \in T : Len(u) = n - 1},
                                    l \in ParamLines}

\* No -p, a file that does not exist, one that cannot be read, or a text.
ParamFiles ==
    {None}
    \cup {Some([F_OK |-> FALSE, R_OK |-> FALSE, lines |-> <<>>]),
          Some([F_OK |-> TRUE, R_OK |-> FALSE, lines |-> <<>>])}
    \cup {Some([F_OK |-> TRUE, R_OK |-> TRUE, lines |-> t]) :
            t \in Texts(MaxLines)}

ParamOpts ==
    [max_dist : {MaxPos}, min_reads : {1}, min_size : {0}, min_mapq : {1},
     max_nm : {1}, min_as_ratio : {[num |-> 1, den |-> 2]},
     out_bam_filename : {TRUE}, param_file : ParamFiles]

ParamReads ==
    [query_name : {nread + 1}, is_unmapped : {FALSE}, is_supplementary : {FALSE},
     mapping_quality : {1}, NM : {<<>>}, AS : {<<>>}, query_length : {2},
     BX : Tags(Barcodes) \ {<<>>}, reference_id : {0}, pos : {1, MaxPos},
     reference_length : {ReadLen}, is_reverse : {FALSE}, MI : {<<>>}]
    \cup
    [query_name : {nread + 1}, is_unmapped : BOOLEAN, is_supplementary : {FALSE},
     mapping_quality : {1}, NM : {<<>>}, AS : {<<>>}, query_length : {2},
     BX : {<<>>}, reference_id : {0}, pos : {0},
     reference_length : {ReadLen}, is_reverse : {FALSE}, MI : {<<>>}]

InitParams ==
    /\ opt \in ParamOpts
    /\ pc = "args"
    /\ nread = 0
    /\ read = None
    /\ prev_barcode = None
    /\ prev_chr = None
    /\ cur_reads = <<>>
    /\ new_molec_id = 0
    /\ out_molecules_file = <<>>
    /\ out_bam_file = <<>>
    /\ stderr = <<>>

ParamInput == {r \in ParamReads : KeepsOrder(r)}

NextParams ==
    \/ parse_arguments
    \/ More /\ \E r \in ParamInput : DropFiltered(r)
    \/ More /\ \E r \in ParamInput : ForwardNoBarcode(r)
    \/ More /\ \E r \in ParamInput : AppendToRun(r)
    \/ More /\ \E r \in ParamInput : CloseRun(r)
    \/ EndOfStream

SpecParams == InitParams /\ [][NextParams]_vars

(***************************************************************************)
(* C13: when a parameter file is given, max_dist is the integer of the     *)
(* second tab-separated field of the first line whose first field starts   *)
(* with "read_p"; when the file does not exist, cannot be read or has no   *)
(* such line, the program ends with a message on stderr and sys.exit(1),   *)
(* and no record has been read and nothing has been written.               *)
(***************************************************************************)
\* The lines of the file whose first field starts with "read_p".
ReadPLines(f) ==
    {i \in DOMAIN f.lines :
        startswith(split(strip(f.lines[i]), "\t")[1], ReadP)}

C13_ParamFileSetsMaxDist ==
    (pc # "args" /\ opt.param_file # None) =>
        LET f == opt.param_file[1]
            hits == ReadPLines(f)
        IN  IF f.F_OK /\ f.R_OK /\ hits # {}
            THEN LET i == CHOOSE k \in hits : \A j \in hits : k <= j
                 IN  /\ pc \in {"loop", "done"}
                     /\ stderr = <<>>
                     /\ opt.max_dist = int(split(strip(f.lines[i]), "\t")[2])
            ELSE /\ pc = "exit"
                 /\ stderr \in {<<CannotBeRead>>, <<NotFound>>}
                 /\ nread = 0
                 /\ out_molecules_file = <<>>
                 /\ out_bam_file = <<>>

(***************************************************************************)
(* C14: the medians of a segment closed at a boundary are computed from    *)
(* the samples of the reads of that segment only: the read that triggers   *)
(* the boundary gives its mapping quality, AS and NM to the segment it     *)
(* opens, not to the one it closes.                                        *)
(***************************************************************************)
\* The samples the reads rs carry.
MapqsOf(rs) == [k \in DOMAIN rs |-> rs[k].mapping_quality]
TagsOf(rs, tag) ==
    LET tagged == SelectSeq(rs, LAMBDA x : has_tag(x, tag))
    IN  [k \in DOMAIN tagged |-> get_tag(tagged[k], tag)]

\* The reads of the segment that is open after n iterations over the run.
SegmentReads(n) == SubSeq(cur_reads, SegmentStartIndex(n), n)

\* Two medians are the same number, or both "NA".
SameMedian(a, b) ==
    /\ a.na = b.na
    /\ a.num * b.den = b.num * a.den

C14_MediansOfOwnReads ==
    [][ClosesRun =>
         \A i \in 2..Len(cur_reads) :
             BoundaryAt(i) =>
                 LET pre == RunLocals(i - 1)
                     post == RunLocals(i)
                     seg == SegmentReads(i - 1)
                 IN  /\ post.mapqs = <<cur_reads[i].mapping_quality>>
                     /\ Len(post.mols) > Len(pre.mols) =>
                            LET m == post.mols[Len(post.mols)]
                            IN  /\ SameMedian(m.mapq_median,
                                              median_or_NA(MapqsOf(seg)))
                                /\ SameMedian(m.as_median,
                                              median_or_NA(TagsOf(seg, "AS")))
                                /\ SameMedian(m.nm_median,
                                              median_or_NA(TagsOf(seg, "NM")))]_vars

(***************************************************************************)
(* C15: the end of every closed segment, at a boundary inside the run and  *)
(* at the flush that ends the run, is the alignment end of the last read   *)
(* of that segment.                                                        *)
(***************************************************************************)
C15_EndIsLastReadEnd ==
    [][ClosesRun =>
         LET n == Len(cur_reads)
         IN  /\ \A i \in 2..n :
                    (BoundaryAt(i)
                       /\ Len(RunLocals(i).mols) > Len(RunLocals(i - 1).mols))
                    => RunLocals(i).mols[Len(RunLocals(i).mols)].end
                         = reference_end(cur_reads[i - 1])
             /\ Len(out_molecules_file') > Len(RunLocals(n).mols)
                    => out_molecules_file'[Len(out_molecules_file')].end
                         = reference_end(cur_reads[n])]_vars

(***************************************************************************)
(* C16: a read that does not trigger a boundary adds one to the read count *)
(* when it is the first read of its strand in the segment or lies after    *)
(* the previous read of its strand, and adds nothing when it has the       *)
(* position of that previous read (a duplicate); position 0 included.      *)
(***************************************************************************)
\* The earlier reads of the segment of the i-th read that have its strand.
SameStrandBefore(i) ==
    {k \in SegmentStartIndex(i)..(i - 1) :
        cur_reads[k].is_reverse = cur_reads[i].is_reverse}

C16_DuplicatesNotCounted ==
    [][ClosesRun =>
         \A i \in DOMAIN cur_reads :
             (i = 1 \/ ~BoundaryAt(i)) =>
                 LET same == SameStrandBefore(i)
                     added == RunLocals(i).count - RunLocals(i - 1).count
                 IN  IF same = {} THEN added = 1
                     ELSE LET k == CHOOSE j \in same : \A l \in same : l <= j
                          IN  IF cur_reads[i].pos > cur_reads[k].pos
                              THEN added = 1
                              ELSE added = 0]_vars

(***************************************************************************)
(* C17: at a boundary triggered by the read r the segment state is reset   *)
(* from r: start and prev_val are the position of r, count is 0, the       *)
(* previous position of the strand of r is the position of r and the one   *)
(* of the opposite strand is unset (0).                                    *)
(***************************************************************************)
C17_BoundaryResetsFromRead ==
    [][ClosesRun =>
         \A i \in 2..Len(cur_reads) :
             BoundaryAt(i) =>
                 LET r == cur_reads[i]
                     post == RunLocals(i)
                 IN  /\ post.start = r.pos
                     /\ post.prev_val = r.pos
                     /\ post.count = 0
                     /\ post.prev_val1 = (IF r.is_reverse THEN 0 ELSE r.pos)
                     /\ post.prev_val2 = (IF r.is_reverse THEN r.pos ELSE 0)]_vars

(***************************************************************************)
(* C18: whenever a record can close the open run the buffer holds at least *)
(* one read, and wherever the medians of a segment are taken (after any    *)
(* read of the run, at a boundary or at the flush) mapqs holds at least    *)
(* one sample, so that every printed molecule has a mapping-quality        *)
(* median.                                                                 *)
(***************************************************************************)
\* The record r, read next, closes the open run.
WouldCloseRun(r) == ~Filtered(r) /\ has_tag(r, "BX") /\ RunChanges(r)

C18_ClosedRunNotEmpty ==
    /\ \A r \in StatsReads : WouldCloseRun(r) => Len(cur_reads) >= 1
    /\ \A n \in DOMAIN cur_reads : Len(RunLocals(n).mapqs) >= 1
    /\ \A m \in Range(out_molecules_file) : ~m.mapq_median.na

\* A run of two reads has been closed, its molecule has the median of their
\* two mapping qualities, and the run that is open now can be closed too.
C18_Witness ==
    /\ \E m \in Range(out_molecules_file) :
           m.mapq_median = [na |-> FALSE, num |-> 3, den |-> 2]
    /\ Len(cur_reads) = 1
    /\ \E r \in StatsReads : WouldCloseRun(r)

(***************************************************************************)
(* C19: the molecules printed for a run are those the segmentation of its  *)
(* buffered reads gives from a fresh state (no molecule printed before,    *)
(* counter 0), but for their ids, which go on from the counter: nothing    *)
(* of an earlier run but the counter reaches a later run.                  *)
(***************************************************************************)
\* The segmentation of the open run alone, as if it were the first run.
FreshRun == SegmentRun(cur_reads, prev_barcode[1], 0, <<>>, <<>>)

C19_RunsDoNotLeak ==
    [][ClosesRun =>
         /\ Len(PrintedNow) = Len(FreshRun.mols)
         /\ \A k \in DOMAIN PrintedNow :
                PrintedNow[k] = [FreshRun.mols[k] EXCEPT
                                    !.new_molec_id = @ + new_molec_id]
         /\ new_molec_id' = new_molec_id + FreshRun.new_molec_id]_vars

\* Two runs have been closed and each has printed a molecule.
C19_Witness ==
    \E i, j \in DOMAIN out_molecules_file :
        /\ i < j
        /\ out_molecules_file[i].rname # out_molecules_file[j].rname
        /\ out_molecules_file[j].count >= 1

(***************************************************************************)
(* C20: with an output BAM, every read of the segment of a printed         *)
(* molecule, the read that started the segment by ending the previous one  *)
(* included, is written to the output BAM with the id of that molecule as  *)
(* its MI tag.                                                             *)
(***************************************************************************)
\* The records this step writes to the output BAM.
WrittenNow ==
    SubSeq(out_bam_file', Len(out_bam_file) + 1, Len(out_bam_file'))

\* The reads lo..hi of the open run are written, each once, with tag id.
TaggedWith(lo, hi, id) ==
    \A k \in lo..hi :
        /\ \E w \in Range(WrittenNow) : w.query_name = cur_reads[k].query_name
        /\ \A w \in Range(WrittenNow) :
               w.query_name = cur_reads[k].query_name
                   => w = [cur_reads[k] EXCEPT !.MI = <<id>>]

C20_MoleculeReadsCarryItsId ==
    [][(ClosesRun /\ opt.out_bam_filename) =>
         LET n == Len(cur_reads)
         IN  /\ \A i \in 2..n :
                    (BoundaryAt(i)
                       /\ Len(RunLocals(i).mols) > Len(RunLocals(i - 1).mols))
                    => TaggedWith(SegmentStartIndex(i - 1), i - 1,
                                  RunLocals(i).mols[Len(RunLocals(i).mols)]
                                      .new_molec_id)
             /\ Len(out_molecules_file') > Len(RunLocals(n).mols)
                    => TaggedWith(SegmentStartIndex(n), n,
                                  out_molecules_file'[Len(out_molecules_file')]
                                      .new_molec_id)]_vars

\* A run has printed two molecules, and the read that started the second
\* one is in the output BAM with the id of the second one.
C20_Witness ==
    /\ opt.out_bam_filename
    /\ \E i, j \in DOMAIN out_molecules_file :
           /\ out_molecules_file[i].new_molec_id + 1
                = out_molecules_file[j].new_molec_id
           /\ out_molecules_file[i].barcode = out_molecules_file[j].barcode
           /\ out_molecules_file[i].rname = out_molecules_file[j].rname
           /\ \E w \in Range(out_bam_file) :
                  /\ w.pos = out_molecules_file[j].start
                  /\ w.BX = <<out_molecules_file[j].barcode>>
                  /\ w.MI = <<out_molecules_file[j].new_molec_id>>
====
